---- MODULE Spec2Model ----
(***************************************************************************)
(* Model of server.py: the /connect handler (bot_connect and               *)
(* create_room_and_token), the lifespan manager and cleanup().             *)
(*                                                                         *)
(* Scheduling: every handler is an `async def`, so handlers and the        *)
(* lifespan coroutine run on one event loop.  A coroutine runs until its   *)
(* next `await`; `running` names the coroutine that holds the loop in the  *)
(* middle of a synchronous stretch (0 when the loop is free).              *)
(*                                                                         *)
(* Strings are sequences of symbols, so that building the shell command    *)
(* line and the shell's word splitting are computed, not assumed.          *)
(***************************************************************************)
EXTENDS Integers, Sequences, FiniteSets, TLC

\* Number of POST /connect invocations considered.
MaxReq == 2

Reqs == 1..MaxReq

\* Request ids double as Popen handle ids: an invocation creates at most one.
Handles == Reqs

\* OS process identifiers available to the spawned shells.
Pids == 1..MaxReq

\* The lifespan coroutine (or a synchronous caller of cleanup) holding the loop.
LIFESPAN == 0 - 1

\* Values the external API hands back: shell-safe words, and the empty string.
RoomUrls == { <<"room1">>, <<"room2">> }
Tokens == { <<"tokA">>, <<"tokB">> }

Val(v) == [kind |-> "val", val |-> v]
Raised == [kind |-> "raise", val |-> <<>>]
NoResult == [kind |-> "none", val |-> <<>>]

\* What `await create_room(...)` can produce: a room whose url is a string
\* (possibly empty), or an exception of the helper.
RoomOutcomes == { Val(u) : u \in RoomUrls \cup {<<>>} } \cup {Raised}

\* What `await get_token(url)` can produce.
TokenOutcomes == { Val(t) : t \in Tokens \cup {<<>>} } \cup {Raised}

\* Python truthiness of a str: `not s` holds exactly for the empty string.
Falsy(s) == Len(s) = 0

VARIABLES
    lpc,          \* position of the lifespan coroutine
    closeCalls,   \* number of aiohttp_session.close() calls made
    cleanupCalls, \* number of cleanup() invocations started
    running,      \* coroutine holding the event loop (0: loop free)
    pc,           \* position of each /connect handler
    room_url,     \* handler local: room.url / room_url
    token,        \* handler local: token
    api,          \* what the external API returned to each invocation
    steps,        \* the steps each invocation has started, in order
    resp,         \* the HTTP response of each invocation
    procs,        \* the Popen handles and their OS processes
    bot_procs,    \* the session registry, in dict insertion order
    cpc,          \* position inside cleanup()
    ci,           \* cleanup()'s iteration index into bot_procs
    clen,         \* dict size when cleanup()'s iteration began
    tlog,         \* what cleanup() did to each handle, per invocation
    tpc           \* position of a caller that invokes cleanup() twice

vars == << lpc, closeCalls, cleanupCalls, running, pc, room_url, token, api,
           steps, resp, procs, bot_procs, cpc, ci, clen, tlog, tpc >>

\* ------------------------------------------------------------------------
\* Strings and the shell

\* The command line with the url and the token in each other's place.
CommandLine_Swapped(u, t) ==
    <<"python3", " ", "-m", " ", "bot-gemini", " ", "-u", " ">> \o t
        \o <<" ", "-t", " ">> \o u

\* f"python3 -m {bot_file} -u {room_url} -t {token}"
CommandLine(u, t) ==
    <<"python3", " ", "-m", " ", "bot-gemini", " ", "-u", " ">> \o u
        \o <<" ", "-t", " ">> \o t

RECURSIVE ShellSplitFrom(_, _, _)
ShellSplitFrom(s, i, cur) ==
    IF i > Len(s)
    THEN IF Len(cur) = 0 THEN <<>> ELSE <<cur>>
    ELSE IF s[i] = " "
         THEN IF Len(cur) = 0 THEN ShellSplitFrom(s, i + 1, <<>>)
              ELSE <<cur>> \o ShellSplitFrom(s, i + 1, <<>>)
         ELSE ShellSplitFrom(s, i + 1, Append(cur, s[i]))

\* /bin/sh -c <string>: the string is split into words at blanks.
ShellSplit(s) == ShellSplitFrom(s, 1, <<>>)

\* The value following `flag` in an argument vector (<<>> when absent).
ArgOf(argv, flag) ==
    LET at == { i \in 1..(Len(argv) - 1) : argv[i] = <<flag>> }
    IN  IF at = {} THEN <<>>
        ELSE argv[(CHOOSE i \in at : \A j \in at : i <= j) + 1]

\* ------------------------------------------------------------------------
\* State after startup: the lifespan coroutine is suspended at `yield`.

NoResp == [status |-> 0, detail |-> "", about |-> <<>>,
           room_url |-> <<>>, token |-> <<>>]

NoProc == [state |-> "none", pid |-> 0, argv |-> <<>>]

Init ==
    /\ lpc = "yield"
    /\ closeCalls = 0
    /\ cleanupCalls = 0
    /\ running = 0
    /\ pc = [r \in Reqs |-> "idle"]
    /\ room_url = [r \in Reqs |-> <<>>]
    /\ token = [r \in Reqs |-> <<>>]
    /\ api = [r \in Reqs |-> [room |-> NoResult, token |-> NoResult]]
    /\ steps = [r \in Reqs |-> <<>>]
    /\ resp = [r \in Reqs |-> NoResp]
    /\ procs = [h \in Handles |-> NoProc]
    /\ bot_procs = <<>>
    /\ cpc = "idle"
    /\ ci = 0
    /\ clen = 0
    /\ tlog = {}
    /\ tpc = "idle"

\* The service's lifecycle state, read off the lifespan coroutine.
svc ==
    IF lpc = "yield" THEN "Running"
    ELSE IF lpc \in {"awaitClose", "cleanup"} THEN "ShuttingDown"
    ELSE "Exited"

\* A handler can be resumed when the loop is free and the process lives:
\* once the lifespan coroutine has ended the server process is gone.
CanResume == running = 0 /\ svc # "Exited"

lifespanVars == << lpc, closeCalls >>
cleanupVars == << cleanupCalls, cpc, ci, clen, tlog >>
handlerVars == << pc, room_url, token, api, steps, resp >>

\* HTTPException(status_code=500, detail=...) and the framework's answer to
\* any other exception.
Http500(detail, about) ==
    [status |-> 500, detail |-> detail, about |-> about,
     room_url |-> <<>>, token |-> <<>>]

\* ------------------------------------------------------------------------
\* POST /connect

\* The request arrives; the handler runs up to `await create_room(...)`.
\* Requests are accepted while the service runs, and are numbered in the
\* order in which they arrive.
ConnectStart(r) ==
    /\ svc = "Running"
    /\ running = 0
    /\ pc[r] = "idle"
    /\ \A q \in Reqs : q < r => pc[q] # "idle"
    /\ pc' = [pc EXCEPT ![r] = "awaitRoom"]
    /\ steps' = [steps EXCEPT ![r] = Append(@, "room")]
    /\ UNCHANGED << lifespanVars, cleanupVars, running, room_url, token, api,
                    resp, procs, bot_procs, tpc >>

\* RoomReturns without the `if not room.url` test.
RoomReturns_NoCheck(r, out) ==
    /\ CanResume
    /\ pc[r] = "awaitRoom"
    /\ api' = [api EXCEPT ![r].room = out]
    /\ IF out.kind = "raise"
       THEN /\ resp' = [resp EXCEPT ![r] = Http500("Internal Server Error", <<>>)]
            /\ pc' = [pc EXCEPT ![r] = "done"]
            /\ UNCHANGED << room_url, steps >>
       ELSE IF FALSE
       THEN /\ resp' = [resp EXCEPT ![r] = Http500("Failed to create room", <<>>)]
            /\ pc' = [pc EXCEPT ![r] = "done"]
            /\ UNCHANGED << room_url, steps >>
       ELSE /\ room_url' = [room_url EXCEPT ![r] = out.val]
            /\ steps' = [steps EXCEPT ![r] = Append(@, "token")]
            /\ pc' = [pc EXCEPT ![r] = "awaitToken"]
            /\ UNCHANGED resp
    /\ UNCHANGED << lifespanVars, cleanupVars, running, token, procs,
                    bot_procs, tpc >>

\* create_room returns (or raises); on a usable url the handler goes on to
\* `await get_token(room.url)`.
RoomReturns(r, out) ==
    /\ CanResume
    /\ pc[r] = "awaitRoom"
    /\ api' = [api EXCEPT ![r].room = out]
    /\ IF out.kind = "raise"
       THEN /\ resp' = [resp EXCEPT ![r] = Http500("Internal Server Error", <<>>)]
            /\ pc' = [pc EXCEPT ![r] = "done"]
            /\ UNCHANGED << room_url, steps >>
       ELSE IF Falsy(out.val)
       THEN /\ resp' = [resp EXCEPT ![r] = Http500("Failed to create room", <<>>)]
            /\ pc' = [pc EXCEPT ![r] = "done"]
            /\ UNCHANGED << room_url, steps >>
       ELSE /\ room_url' = [room_url EXCEPT ![r] = out.val]
            /\ steps' = [steps EXCEPT ![r] = Append(@, "token")]
            /\ pc' = [pc EXCEPT ![r] = "awaitToken"]
            /\ UNCHANGED resp
    /\ UNCHANGED << lifespanVars, cleanupVars, running, token, procs,
                    bot_procs, tpc >>

\* TokenReturns without the `if not token` test.
TokenReturns_NoCheck(r, out) ==
    /\ CanResume
    /\ pc[r] = "awaitToken"
    /\ api' = [api EXCEPT ![r].token = out]
    /\ IF out.kind = "raise"
       THEN /\ resp' = [resp EXCEPT ![r] = Http500("Internal Server Error", <<>>)]
            /\ pc' = [pc EXCEPT ![r] = "done"]
            /\ UNCHANGED << token, running >>
       ELSE IF FALSE
       THEN /\ resp' = [resp EXCEPT ![r] =
                           Http500("Failed to get token for room", room_url[r])]
            /\ pc' = [pc EXCEPT ![r] = "done"]
            /\ UNCHANGED << token, running >>
       ELSE /\ token' = [token EXCEPT ![r] = out.val]
            /\ pc' = [pc EXCEPT ![r] = "spawn"]
            /\ running' = r
            /\ UNCHANGED resp
    /\ UNCHANGED << lifespanVars, cleanupVars, room_url, steps, procs,
                    bot_procs, tpc >>

\* TokenReturns testing room.url a second time where it should test token.
TokenReturns_ChecksRoom(r, out) ==
    /\ CanResume
    /\ pc[r] = "awaitToken"
    /\ api' = [api EXCEPT ![r].token = out]
    /\ IF out.kind = "raise"
       THEN /\ resp' = [resp EXCEPT ![r] = Http500("Internal Server Error", <<>>)]
            /\ pc' = [pc EXCEPT ![r] = "done"]
            /\ UNCHANGED << token, running >>
       ELSE IF Falsy(room_url[r])
       THEN /\ resp' = [resp EXCEPT ![r] =
                           Http500("Failed to get token for room", room_url[r])]
            /\ pc' = [pc EXCEPT ![r] = "done"]
            /\ UNCHANGED << token, running >>
       ELSE /\ token' = [token EXCEPT ![r] = out.val]
            /\ pc' = [pc EXCEPT ![r] = "spawn"]
            /\ running' = r
            /\ UNCHANGED resp
    /\ UNCHANGED << lifespanVars, cleanupVars, room_url, steps, procs,
                    bot_procs, tpc >>

\* get_token returns (or raises); on a usable token create_room_and_token
\* returns and the handler enters its synchronous stretch.
TokenReturns(r, out) ==
    /\ CanResume
    /\ pc[r] = "awaitToken"
    /\ api' = [api EXCEPT ![r].token = out]
    /\ IF out.kind = "raise"
       THEN /\ resp' = [resp EXCEPT ![r] = Http500("Internal Server Error", <<>>)]
            /\ pc' = [pc EXCEPT ![r] = "done"]
            /\ UNCHANGED << token, running >>
       ELSE IF Falsy(out.val)
       THEN /\ resp' = [resp EXCEPT ![r] =
                           Http500("Failed to get token for room", room_url[r])]
            /\ pc' = [pc EXCEPT ![r] = "done"]
            /\ UNCHANGED << token, running >>
       ELSE /\ token' = [token EXCEPT ![r] = out.val]
            /\ pc' = [pc EXCEPT ![r] = "spawn"]
            /\ running' = r
            /\ UNCHANGED resp
    /\ UNCHANGED << lifespanVars, cleanupVars, room_url, steps, procs,
                    bot_procs, tpc >>

\* A process occupies its pid until it has been reaped.
PidInUse(p) ==
    \E h \in Handles : procs[h].pid = p /\ procs[h].state \in {"running", "exited"}

\* The pid the OS gives the next process.
FreshPid == CHOOSE p \in Pids : ~PidInUse(p) /\ \A q \in Pids : ~PidInUse(q) => p <= q

\* Spawn whose except clause swallows the failure and goes on to register.
Spawn_SwallowFailure(r, ok) ==
    /\ running = r
    /\ pc[r] = "spawn"
    /\ steps' = [steps EXCEPT ![r] = Append(@, "launch")]
    /\ IF ok
       THEN /\ procs' = [procs EXCEPT ![r] =
                  [state |-> "running", pid |-> FreshPid,
                   argv |-> ShellSplit(CommandLine(room_url[r], token[r]))]]
            /\ pc' = [pc EXCEPT ![r] = "register"]
            /\ UNCHANGED << resp, running >>
       ELSE /\ pc' = [pc EXCEPT ![r] = "register"]
            /\ UNCHANGED << resp, running, procs >>
    /\ UNCHANGED << lifespanVars, cleanupVars, room_url, token, api,
                    bot_procs, tpc >>

\* subprocess.Popen([cmd], shell=True, ...): either the shell is started on
\* the command line, or Popen raises and the except clause answers 500.
Spawn(r, ok) ==
    /\ running = r
    /\ pc[r] = "spawn"
    /\ steps' = [steps EXCEPT ![r] = Append(@, "launch")]
    /\ IF ok
       THEN /\ procs' = [procs EXCEPT ![r] =
                  [state |-> "running", pid |-> FreshPid,
                   argv |-> ShellSplit(CommandLine(room_url[r], token[r]))]]
            /\ pc' = [pc EXCEPT ![r] = "register"]
            /\ UNCHANGED << resp, running >>
       ELSE /\ resp' = [resp EXCEPT ![r] = Http500("Failed to start subprocess", <<>>)]
            /\ pc' = [pc EXCEPT ![r] = "done"]
            /\ running' = 0
            /\ UNCHANGED procs
    /\ UNCHANGED << lifespanVars, cleanupVars, room_url, token, api,
                    bot_procs, tpc >>

\* d[k] = v on a dict kept in insertion order.
DictSet(d, k, v) ==
    IF \E i \in 1..Len(d) : d[i].pid = k
    THEN [i \in 1..Len(d) |-> IF d[i].pid = k THEN v ELSE d[i]]
    ELSE Append(d, v)

\* bot_procs[proc.pid] = (proc, room_url), then the 200 answer.
Register(r) ==
    /\ running = r
    /\ pc[r] = "register"
    /\ bot_procs' = DictSet(bot_procs, procs[r].pid,
                            [pid |-> procs[r].pid, proc |-> r,
                             room_url |-> room_url[r]])
    /\ steps' = [steps EXCEPT ![r] = Append(@, "register")]
    /\ resp' = [resp EXCEPT ![r] =
                  [status |-> 200, detail |-> "", about |-> <<>>,
                   room_url |-> room_url[r], token |-> token[r]]]
    /\ pc' = [pc EXCEPT ![r] = "done"]
    /\ running' = 0
    /\ UNCHANGED << lifespanVars, cleanupVars, room_url, token, api, procs, tpc >>

\* A worker ends by itself, or dies of a signal it was sent: it stays a
\* zombie until its handle is polled or waited for.
WorkerExit(h) ==
    /\ procs[h].state = "running"
    /\ procs' = [procs EXCEPT ![h].state = "exited"]
    /\ UNCHANGED << lifespanVars, cleanupVars, handlerVars, running,
                    bot_procs, tpc >>

\* ------------------------------------------------------------------------
\* cleanup()

\* Entry of cleanup(): `for entry in bot_procs.values()` begins.
CleanupEnter ==
    /\ cleanupCalls' = cleanupCalls + 1
    /\ cpc' = "iter"
    /\ ci' = 1
    /\ clen' = Len(bot_procs)
    /\ tlog' = tlog \cup
         {[call |-> cleanupCalls + 1, proc |-> bot_procs[i].proc, ev |-> "listed"] :
             i \in 1..Len(bot_procs)}

\* CleanupTerminate giving up the whole drain at a process that has exited.
CleanupTerminate_StopOnExited ==
    /\ cpc = "iter"
    /\ Len(bot_procs) # clen \/ ci <= Len(bot_procs)
    /\ IF Len(bot_procs) # clen
       THEN /\ cpc' = "raised"
            /\ UNCHANGED << procs, tlog >>
       ELSE LET h == bot_procs[ci].proc
                st == procs[h].state
            IN  /\ cpc' = IF st = "running" THEN "wait" ELSE "returned"
                /\ procs' = [procs EXCEPT ![h].state =
                               IF st = "exited" THEN "reaped" ELSE st]
                /\ tlog' = tlog \cup
                     {[call |-> cleanupCalls, proc |-> h,
                       ev |-> IF st = "running" THEN "signal" ELSE "noop"]}
    /\ UNCHANGED << lifespanVars, handlerVars, cleanupCalls, ci, clen, running,
                    bot_procs, tpc >>

\* Next entry, then proc.terminate(): the handle is polled first and the
\* signal goes only to a process that has not exited.  A dict whose size
\* changed since the iteration began makes the iterator raise.
CleanupTerminate ==
    /\ cpc = "iter"
    /\ Len(bot_procs) # clen \/ ci <= Len(bot_procs)
    /\ IF Len(bot_procs) # clen
       THEN /\ cpc' = "raised"
            /\ UNCHANGED << procs, tlog >>
       ELSE LET h == bot_procs[ci].proc
                st == procs[h].state
            IN  /\ cpc' = "wait"
                /\ procs' = [procs EXCEPT ![h].state =
                               IF st = "exited" THEN "reaped" ELSE st]
                /\ tlog' = tlog \cup
                     {[call |-> cleanupCalls, proc |-> h,
                       ev |-> IF st = "running" THEN "signal" ELSE "noop"]}
    /\ UNCHANGED << lifespanVars, handlerVars, cleanupCalls, ci, clen, running,
                    bot_procs, tpc >>

\* cleanup() without proc.wait(): the loop moves on right after terminate().
CleanupWait_NoJoin ==
    /\ cpc = "wait"
    /\ LET h == bot_procs[ci].proc
           st == procs[h].state
       IN  /\ procs' = procs
           /\ tlog' = tlog \cup
                {[call |-> cleanupCalls, proc |-> h, ev |-> "nowait"]}
    /\ ci' = ci + 1
    /\ cpc' = "iter"
    /\ UNCHANGED << lifespanVars, handlerVars, cleanupCalls, clen, running,
                    bot_procs, tpc >>

\* proc.wait(): blocks until the process has exited, and reaps it.
CleanupWait ==
    /\ cpc = "wait"
    /\ LET h == bot_procs[ci].proc
           st == procs[h].state
       IN  /\ st \in {"exited", "reaped"}
           /\ procs' = [procs EXCEPT ![h].state = "reaped"]
           /\ tlog' = tlog \cup
                {[call |-> cleanupCalls, proc |-> h,
                  ev |-> IF st = "exited" THEN "join" ELSE "nowait"]}
    /\ ci' = ci + 1
    /\ cpc' = "iter"
    /\ UNCHANGED << lifespanVars, handlerVars, cleanupCalls, clen, running,
                    bot_procs, tpc >>

\* The iteration is exhausted: cleanup() returns.
CleanupReturn ==
    /\ cpc = "iter"
    /\ Len(bot_procs) = clen
    /\ ci > Len(bot_procs)
    /\ cpc' = "returned"
    /\ UNCHANGED << lifespanVars, handlerVars, cleanupCalls, ci, clen, tlog,
                    running, procs, bot_procs, tpc >>

\* ------------------------------------------------------------------------
\* lifespan(), after `yield`

\* The shutdown signal resumes the lifespan coroutine, which runs up to
\* `await aiohttp_session.close()`.
Shutdown ==
    /\ lpc = "yield"
    /\ running = 0
    /\ tpc = "idle"
    /\ lpc' = "awaitClose"
    /\ closeCalls' = closeCalls + 1
    /\ UNCHANGED << cleanupVars, handlerVars, running, procs, bot_procs, tpc >>

\* CloseReturns with cleanup() run off the event loop, which stays free.
CloseReturns_Yielding(ok) ==
    /\ lpc = "awaitClose"
    /\ running = 0
    /\ IF ok
       THEN /\ lpc' = "cleanup"
            /\ running' = 0
            /\ CleanupEnter
       ELSE /\ lpc' = "failed"
            /\ UNCHANGED << running, cleanupVars >>
    /\ UNCHANGED << closeCalls, handlerVars, procs, bot_procs, tpc >>

\* close() returns and cleanup() is called, holding the loop until it
\* returns; or close() raises and the coroutine ends there.
CloseReturns(ok) ==
    /\ lpc = "awaitClose"
    /\ running = 0
    /\ IF ok
       THEN /\ lpc' = "cleanup"
            /\ running' = LIFESPAN
            /\ CleanupEnter
       ELSE /\ lpc' = "failed"
            /\ UNCHANGED << running, cleanupVars >>
    /\ UNCHANGED << closeCalls, handlerVars, procs, bot_procs, tpc >>

\* cleanup() is over and with it the lifespan coroutine.
LifespanExit ==
    /\ lpc = "cleanup"
    /\ cpc \in {"returned", "raised"}
    /\ lpc' = IF cpc = "returned" THEN "done" ELSE "failed"
    /\ running' = 0
    /\ UNCHANGED << closeCalls, cleanupVars, handlerVars, procs, bot_procs, tpc >>

\* ------------------------------------------------------------------------
\* A synchronous caller that invokes cleanup() twice in sequence while the
\* service runs (the usage the twice-in-sequence property is about).

CallCleanupFirst ==
    /\ tpc = "idle"
    /\ lpc = "yield"
    /\ running = 0
    /\ tpc' = "first"
    /\ running' = LIFESPAN
    /\ CleanupEnter
    /\ UNCHANGED << lifespanVars, handlerVars, procs, bot_procs >>

CallCleanupSecond ==
    /\ tpc = "first"
    /\ cpc = "returned"
    /\ tpc' = "second"
    /\ CleanupEnter
    /\ UNCHANGED << lifespanVars, handlerVars, running, procs, bot_procs >>

CallerDone ==
    /\ tpc = "second"
    /\ cpc = "returned"
    /\ tpc' = "done"
    /\ running' = 0
    /\ UNCHANGED << lifespanVars, cleanupVars, handlerVars, procs, bot_procs >>

Next ==
    \/ \E r \in Reqs : ConnectStart(r)
    \/ \E r \in Reqs, out \in RoomOutcomes : RoomReturns(r, out)
    \/ \E r \in Reqs, out \in TokenOutcomes : TokenReturns(r, out)
    \/ \E r \in Reqs, ok \in BOOLEAN : Spawn(r, ok)
    \/ \E r \in Reqs : Register(r)
    \/ \E h \in Handles : WorkerExit(h)
    \/ Shutdown
    \/ \E ok \in BOOLEAN : CloseReturns(ok)
    \/ CleanupTerminate
    \/ CleanupWait
    \/ CleanupReturn
    \/ LifespanExit

Spec == Init /\ [][Next]_vars

NextTwice ==
    \/ \E r \in Reqs : ConnectStart(r)
    \/ \E r \in Reqs, out \in RoomOutcomes : RoomReturns(r, out)
    \/ \E r \in Reqs, out \in TokenOutcomes : TokenReturns(r, out)
    \/ \E r \in Reqs, ok \in BOOLEAN : Spawn(r, ok)
    \/ \E r \in Reqs : Register(r)
    \/ \E h \in Handles : WorkerExit(h)
    \/ CallCleanupFirst
    \/ CleanupTerminate
    \/ CleanupWait
    \/ CleanupReturn
    \/ CallCleanupSecond
    \/ CallerDone

SpecTwice == Init /\ [][NextTwice]_vars

\* ------------------------------------------------------------------------
\* Vocabulary of the properties

Order == <<"room", "token", "launch", "register">>

IsPrefix(a, b) == Len(a) <= Len(b) /\ \A i \in 1..Len(a) : a[i] = b[i]

Has(seq, x) == \E i \in 1..Len(seq) : seq[i] = x

\* The handles the registry holds.
Registered == { bot_procs[i].proc : i \in 1..Len(bot_procs) }

\* The registry entries invocation r contributed.
EntriesOf(r) == { i \in 1..Len(bot_procs) : bot_procs[i].proc = r }

Usable(out) == out.kind = "val" /\ ~Falsy(out.val)

RoomFailed(r) == api[r].room.kind = "val" /\ Falsy(api[r].room.val)

TokenFailed(r) == api[r].token.kind = "val" /\ Falsy(api[r].token.val)

SpawnFailed(r) == Has(steps[r], "launch") /\ procs[r].state = "none" /\ pc[r] = "done"

\* The handles cleanup() invocation k found in the registry when it began.
Listed(k) == { e.proc : e \in { x \in tlog : x.call = k /\ x.ev = "listed" } }

\* What cleanup() invocation k did to handle h.
Events(k, h) == { e.ev : e \in { x \in tlog : x.call = k /\ x.proc = h } }

\* ------------------------------------------------------------------------
\* C1: within one /connect invocation the steps are started in the order
\* create room, get token, launch, register, and a step is started only
\* after the one before it has succeeded (a usable url, a usable token, a
\* started process), whatever the other invocations do meanwhile.
ConnectStepsInOrder ==
    \A r \in Reqs :
        /\ IsPrefix(steps[r], Order)
        /\ (Len(steps[r]) >= 2 => Usable(api[r].room))
        /\ (Len(steps[r]) >= 3 => Usable(api[r].token))
        /\ (Len(steps[r]) >= 4 => procs[r].state # "none")

\* An invocation went through all four steps while another was in flight.
ConnectStepsInOrderWitness ==
    \E r, q \in Reqs :
        /\ r # q
        /\ steps[r] = Order
        /\ pc[q] \in {"awaitRoom", "awaitToken"}

\* C2: an invocation whose create_room returned an empty url answers 500,
\* makes no token request, launches nothing and contributes no registry
\* entry.
RoomFailureStops ==
    \A r \in Reqs :
        RoomFailed(r) =>
            /\ resp[r].status = 500
            /\ resp[r].detail = "Failed to create room"
            /\ steps[r] = <<"room">>
            /\ procs[r].state = "none"
            /\ EntriesOf(r) = {}

\* A room failure next to an invocation that did register.
RoomFailureStopsWitness ==
    \E r, q \in Reqs : RoomFailed(r) /\ pc[r] = "done" /\ EntriesOf(q) # {}

\* C3: an invocation whose get_token returned an empty token answers 500
\* (the message carrying the room url), launches nothing and contributes no
\* registry entry.
TokenFailureStops ==
    \A r \in Reqs :
        TokenFailed(r) =>
            /\ resp[r].status = 500
            /\ resp[r].detail = "Failed to get token for room"
            /\ resp[r].about = api[r].room.val
            /\ steps[r] = <<"room", "token">>
            /\ procs[r].state = "none"
            /\ EntriesOf(r) = {}

\* A token failure next to an invocation that did register.
TokenFailureStopsWitness ==
    \E r, q \in Reqs : TokenFailed(r) /\ pc[r] = "done" /\ EntriesOf(q) # {}

\* C4: every registry entry is keyed by the pid of a process that was
\* started, and holds the room url that process was started on; an
\* invocation whose spawn failed answers 500 and has no entry.
RegistryHoldsStarted ==
    /\ \A i \in 1..Len(bot_procs) :
          LET e == bot_procs[i]
          IN  /\ procs[e.proc].state # "none"
              /\ procs[e.proc].pid = e.pid
              /\ e.room_url = ArgOf(procs[e.proc].argv, "-u")
    /\ \A r \in Reqs :
          SpawnFailed(r) =>
              /\ resp[r].status = 500
              /\ resp[r].detail = "Failed to start subprocess"
              /\ EntriesOf(r) = {}

\* A failed spawn next to a registered session.
RegistryHoldsStartedWitness ==
    \E r \in Reqs : SpawnFailed(r) /\ Len(bot_procs) >= 1

SecondCleanupFindsEmptyRegistry ==
    /\ (cleanupCalls >= 1 /\ cpc = "returned" => bot_procs = <<>>)
    /\ Listed(2) = {}

\* C6 (amended): cleanup() called twice in sequence is safe.  The first call
\* leaves the entries in the registry with every process reaped; the second
\* call visits the same entries, delivers no signal and blocks in no join.
SecondCleanupHarmless ==
    (cleanupCalls = 2 /\ cpc = "returned") =>
        /\ Listed(2) = Listed(1)
        /\ (tpc = "second" => Registered = Listed(1))
        /\ \A h \in Listed(2) :
              /\ Events(2, h) = {"listed", "noop", "nowait"}
              /\ (tpc = "second" => procs[h].state = "reaped")

\* The second call has returned on a registry of two sessions.
SecondCleanupHarmlessWitness ==
    /\ tpc = "second"
    /\ cleanupCalls = 2
    /\ cpc = "returned"
    /\ Cardinality(Listed(2)) >= 2

\* C7: once the service has exited, the connection context was closed
\* exactly once and cleanup() was invoked and has completed.
ExitedAfterCloseAndCleanup ==
    svc = "Exited" =>
        /\ closeCalls = 1
        /\ cleanupCalls = 1
        /\ cpc = "returned"

\* A step taken while cleanup() iterates: it registers nothing and leaves
\* the registry as it was.
DrainStep ==
    cpc \in {"iter", "wait"} =>
        /\ bot_procs' = bot_procs
        /\ \A r \in Reqs : Has(steps'[r], "register") => Has(steps[r], "register")

\* C8: while cleanup() iterates the registry, no step registers a session
\* and the registry is not changed.
NoRegistrationDuringDrain == [][DrainStep]_vars

\* The drain is in the middle of its iteration while a /connect is in flight.
NoRegistrationDuringDrainWitness ==
    /\ lpc = "cleanup"
    /\ cpc = "wait"
    /\ Len(bot_procs) >= 1
    /\ \E r \in Reqs : pc[r] \in {"awaitRoom", "awaitToken"}

\* C9: when cleanup() has returned, every handle that was registered when it
\* began has been reaped, and was either sent the signal or found already
\* exited (no signal, no error); all of them were visited.
DrainTerminatesAll ==
    (cpc = "returned" /\ cleanupCalls = 1) =>
        /\ Listed(1) = Registered
        /\ \A h \in Listed(1) :
              /\ procs[h].state = "reaped"
              /\ \/ Events(1, h) = {"listed", "signal", "join"}
                 \/ Events(1, h) = {"listed", "noop", "nowait"}

\* A drain that met an already exited process first and a live one after it.
DrainTerminatesAllWitness ==
    /\ lpc = "cleanup"
    /\ cpc = "returned"
    /\ Len(bot_procs) >= 2
    /\ "noop" \in Events(1, bot_procs[1].proc)
    /\ "signal" \in Events(1, bot_procs[2].proc)

\* C10: a spawned worker is in the registry from its spawn on (the spawning
\* handler still holding the loop excepted), and once the service has
\* exited no spawned worker is still running.
NoOrphanedWorker ==
    /\ \A h \in Handles :
          procs[h].state # "none" =>
              h \in Registered \/ (running = h /\ pc[h] = "register")
    /\ (svc = "Exited" => \A h \in Handles : procs[h].state # "running")

====
